---- MODULE Spec2Model ----
(***************************************************************************)
(* Container lifecycle and I/O core of gitwit-agent.                       *)
(*                                                                         *)
(* src/container.ts : createContainer, startContainer, waitForStreamEnd,   *)
(*                    runCommandInContainer, copyFileToContainer           *)
(* src/app.js       : the main script (lines 145-231) driving them         *)
(*                                                                         *)
(* The main script is one async function: a chain of awaits with no        *)
(* try/catch.  Each await is modelled in two steps: the container runtime  *)
(* processes the call (actions RT_), then the script resumes with the      *)
(* response (actions M_).  The SIGINT listener, the stream events and the  *)
(* runtime run interleaved with the script.                                *)
(***************************************************************************)
EXTENDS Integers, Sequences, FiniteSets

VARIABLES
    dryRun,       \* app.js:149  process.argv.includes('--debug')
    localExists,  \* whether the two local files handed to copyFileToContainer exist
    pc,           \* position of the main script
    step,         \* index in Plan of the operation the script is in (0 before)
    resp,         \* the runtime's response to the call the script awaits
    outstanding,  \* calls of the main script issued and not yet resumed from
    proc,         \* the node process: running, exited, crashed, killed
    fault,        \* what ended the process abnormally
    cstate,       \* the container in the runtime
    handlers,     \* number of SIGINT listeners registered with process.on
    calls,        \* every runtime call issued, in issue order
    hpending,     \* forced stops issued by the SIGINT listener, not yet processed
    hanswers,     \* answers to processed forced stops the listener has not
                  \* resumed with yet, counted per answer
    sigs,         \* signals received so far
    sigRunning,   \* a SIGINT was received while the container was Running
    sigDuringExec,\* exec operations during which a SIGINT was received
    xstate,       \* output stream of the current exec session
    xDataL,       \* its 'data' listener is attached (container.ts:49)
    xEndL,        \* its 'end' listener is attached (container.ts:34)
    xResolved,    \* the promise of waitForStreamEnd is resolved
    xEmitted,     \* chunks the exec stream emitted
    xSurfaced,    \* chunks the 'data' listener printed
    endSeen,      \* exec operations whose stream has emitted 'end'
    returned,     \* exec operations that have returned to the main script
    logState,     \* log stream opened by startContainer
    logListener,  \* its 'data' listener is attached (container.ts:27)
    logEmitted,   \* chunks the log stream emitted, in order
    logSurfaced   \* chunks the listener printed, in order

vars == << dryRun, localExists, pc, step, resp, outstanding, proc, fault, cstate,
           handlers, calls, hpending, hanswers, sigs, sigRunning, sigDuringExec,
           xstate, xDataL, xEndL, xResolved, xEmitted, xSurfaced, endSeen,
           returned, logState, logListener, logEmitted, logSurfaced >>

mainVars == << pc, step, resp, outstanding >>
execVars == << xstate, xDataL, xEndL, xResolved, xEmitted, xSurfaced, endSeen, returned >>
logVars  == << logState, logListener, logEmitted, logSurfaced >>
sigVars  == << handlers, hpending, hanswers, sigs, sigRunning, sigDuringExec >>
inputs   == << dryRun, localExists >>

\* Bounds of the model.
MaxChunks == 1
MaxLogChunks == 2
MaxSignals == 2

Files == {"build", "helper"}

\* What a stop call can be answered with.
StopAnswers == {"ok", "StopError", "AlreadyStopped", "NoSuchContainer"}

\* app.js:219-227  the operations after startContainer, in program order.
Plan ==
    << [op |-> "exec",   arg |-> "mkdir"],
       [op |-> "copy",   arg |-> "build"],
       [op |-> "copy",   arg |-> "helper"],
       [op |-> "exec",   arg |-> "run"],
       [op |-> "stop",   arg |-> ""],
       [op |-> "remove", arg |-> ""] >>

\* The first runtime call each operation of Plan makes.
CallOf(s) ==
    CASE Plan[s].op = "exec"   -> "exec:" \o Plan[s].arg
      [] Plan[s].op = "copy"   -> "putArchive:" \o Plan[s].arg
      [] Plan[s].op = "stop"   -> "stop"
      [] Plan[s].op = "remove" -> "remove"

\* Where the script waits after issuing that call.
AwaitOf(s) ==
    CASE Plan[s].op = "exec"   -> "await_exec"
      [] Plan[s].op = "copy"   -> "await_copy"
      [] Plan[s].op = "stop"   -> "await_stop"
      [] Plan[s].op = "remove" -> "await_remove"

Init ==
    /\ dryRun \in BOOLEAN
    /\ localExists \in [Files -> BOOLEAN]
    /\ pc = "begin"
    /\ step = 0
    /\ resp = "none"
    /\ outstanding = 0
    /\ proc = "running"
    /\ fault = "none"
    /\ cstate = "None"
    /\ handlers = 0
    /\ calls = << >>
    /\ hpending = 0
    /\ hanswers = [r \in StopAnswers |-> 0]
    /\ sigs = 0
    /\ sigRunning = FALSE
    /\ sigDuringExec = {}
    /\ xstate = "none"
    /\ xDataL = FALSE
    /\ xEndL = FALSE
    /\ xResolved = FALSE
    /\ xEmitted = 0
    /\ xSurfaced = 0
    /\ endSeen = {}
    /\ returned = {}
    /\ logState = "none"
    /\ logListener = FALSE
    /\ logEmitted = << >>
    /\ logSurfaced = << >>

----------------------------------------------------------------------------
(* Helpers of the main script *)

\* The script issues runtime call c and suspends at await point p.
Issue(c, p) ==
    /\ calls' = Append(calls, c)
    /\ pc' = p
    /\ resp' = "none"
    /\ outstanding' = outstanding + 1

\* The script resumes from the call it awaited and synchronously issues the
\* next one: the await of the previous call has fully resolved.
Resume(c, p) ==
    /\ calls' = Append(calls, c)
    /\ pc' = p
    /\ resp' = "none"
    /\ outstanding' = (outstanding - 1) + 1

\* A rejected await: nothing in the main script catches it, so the async
\* function rejects, the rest of the sequence is skipped and node ends the
\* process on the unhandled rejection.
Abort(err) ==
    /\ pc' = "aborted"
    /\ resp' = "none"
    /\ outstanding' = outstanding - 1
    /\ proc' = "crashed"
    /\ fault' = err
    /\ UNCHANGED << step, calls >>

\* Begin with the await of the first copy left out: both putArchive calls are
\* issued back to back.
Begin_NoAwait(s) ==
    IF Plan[s].op = "copy" /\ Plan[s + 1].op = "copy"
       THEN /\ step' = s + 1
            /\ calls' = calls \o << CallOf(s), CallOf(s + 1) >>
            /\ pc' = AwaitOf(s + 1)
            /\ resp' = "none"
            /\ outstanding' = outstanding + 1
       ELSE /\ step' = s
            /\ Resume(CallOf(s), AwaitOf(s))

\* The script moves on to operation s of Plan: it issues that operation's
\* first runtime call and suspends on it.
Begin(s) ==
    /\ step' = s
    /\ Resume(CallOf(s), AwaitOf(s))

\* Outcomes of a stop call, by the state the runtime finds the container in.
\* Stopping a running container can fail like any other call (StopError) and
\* then leaves it running.  A container that is not running is reported as
\* "already stopped" (HTTP 304), which a runtime client may hand to the
\* caller as success or as a rejection; a removed container is "no such
\* container".
StopOutcomes(s) ==
    IF s = "Running" THEN {"ok", "StopError"}
    ELSE IF s \in {"Created", "Stopped"} THEN {"ok", "AlreadyStopped"}
    ELSE {"NoSuchContainer"}

\* Outcomes of a remove call, by the state of the container.  The runtime
\* refuses to remove a running container, and can refuse one that is not
\* running as well (Conflict); a removed container is "no such container".
RemoveOutcomes(s) ==
    IF s \in {"Created", "Stopped"} THEN {"ok", "Conflict"}
    ELSE IF s = "Running" THEN {"Conflict"}
    ELSE {"NoSuchContainer"}

----------------------------------------------------------------------------
(* The main script, app.js:199-229 *)

\* app.js:201 / container.ts:7  docker.createContainer({...}) is issued.
M_CreateContainer ==
    /\ proc = "running" /\ pc = "begin"
    /\ Issue("createContainer", "await_create")
    /\ UNCHANGED << inputs, step, proc, fault, cstate, sigVars, execVars, logVars >>

\* The runtime creates the container, or fails (CreationError).
RT_Create ==
    /\ pc = "await_create" /\ resp = "none"
    /\ \E r \in {"ok", "CreationError"} :
          /\ resp' = r
          /\ cstate' = IF r = "ok" THEN "Created" ELSE cstate
    /\ UNCHANGED << inputs, pc, step, outstanding, proc, fault, calls, sigVars,
                    execVars, logVars >>

\* app.js:201-202  createContainer returns the handle (or rejects).
M_Created ==
    /\ proc = "running" /\ pc = "await_create" /\ resp # "none"
    /\ IF resp = "ok"
          THEN /\ pc' = "created"
               /\ resp' = "none"
               /\ outstanding' = outstanding - 1
               /\ UNCHANGED << step, calls, proc, fault >>
          ELSE Abort(resp)
    /\ UNCHANGED << inputs, cstate, sigVars, execVars, logVars >>

\* The --debug branch without its else: after the messages the script falls
\* through to startContainer.
M_DryRun_FallsThrough ==
    /\ proc = "running" /\ pc = "created" /\ dryRun
    /\ handlers' = handlers + 1
    /\ Issue("start", "await_start")
    /\ UNCHANGED << inputs, step, proc, fault, cstate, hpending, hanswers, sigs, sigRunning,
                    sigDuringExec, execVars, logVars >>

\* app.js:204-211  the --debug branch: the message of line 209 reads
\* dockerTag, which is declared nowhere, so the branch throws a
\* ReferenceError; no runtime call is made on the container.
M_DryRun ==
    /\ proc = "running" /\ pc = "created" /\ dryRun
    /\ pc' = "aborted"
    /\ proc' = "crashed"
    /\ fault' = "ReferenceError"
    /\ UNCHANGED << inputs, step, resp, outstanding, calls, cstate, sigVars,
                    execVars, logVars >>

\* startContainer with the listener registered only after the awaited start
\* call: the start call is issued with no listener in place.
M_StartContainer_LateHandler ==
    /\ proc = "running" /\ pc = "created" /\ ~dryRun
    /\ handlers' = handlers
    /\ Issue("start", "await_start")
    /\ UNCHANGED << inputs, step, proc, fault, cstate, hpending, hanswers, sigs, sigRunning,
                    sigDuringExec, execVars, logVars >>

\* app.js:215 / container.ts:16-21  startContainer: process.on('SIGINT', ...)
\* registers the listener, then container.start() is issued.
M_StartContainer ==
    /\ proc = "running" /\ pc = "created" /\ ~dryRun
    /\ handlers' = handlers + 1
    /\ Issue("start", "await_start")
    /\ UNCHANGED << inputs, step, proc, fault, cstate, hpending, hanswers, sigs, sigRunning,
                    sigDuringExec, execVars, logVars >>

\* The runtime starts the container, or fails (StartError).
RT_Start ==
    /\ pc = "await_start" /\ resp = "none"
    /\ \E r \in {"ok", "StartError"} :
          /\ resp' = r
          /\ cstate' = IF r = "ok" /\ cstate = "Created" THEN "Running" ELSE cstate
    /\ UNCHANGED << inputs, pc, step, outstanding, proc, fault, calls, sigVars,
                    execVars, logVars >>

\* container.ts:21-26  start has resolved; container.logs({follow...}) is issued.
M_Started ==
    /\ proc = "running" /\ pc = "await_start" /\ resp # "none"
    /\ IF resp = "ok"
          THEN /\ Resume("logs", "await_logs")
               /\ UNCHANGED << step, proc, fault >>
          ELSE Abort(resp)
    /\ UNCHANGED << inputs, cstate, sigVars, execVars, logVars >>

\* The runtime opens the log stream, or fails (LogsError).
RT_Logs ==
    /\ pc = "await_logs" /\ resp = "none"
    /\ \E r \in {"ok", "LogsError"} :
          /\ resp' = r
          /\ logState' = IF r = "ok" THEN "open" ELSE logState
    /\ UNCHANGED << inputs, pc, step, outstanding, proc, fault, calls, cstate,
                    sigVars, execVars, logListener, logEmitted, logSurfaced >>

\* container.ts:27-28, app.js:216-219  the 'data' listener is attached to the
\* log stream, startContainer returns and the script goes on to Plan[1]; a
\* rejected container.logs is caught by nobody.
M_LogsAttached ==
    /\ proc = "running" /\ pc = "await_logs" /\ resp # "none"
    /\ IF resp = "ok"
          THEN /\ logListener' = TRUE
               /\ Begin(1)
               /\ UNCHANGED << proc, fault >>
          ELSE /\ Abort(resp)
               /\ UNCHANGED logListener
    /\ UNCHANGED << inputs, cstate, sigVars, execVars, logState, logEmitted,
                    logSurfaced >>

----------------------------------------------------------------------------
(* runCommandInContainer, container.ts:42-53, and waitForStreamEnd, 31-41 *)

\* The runtime creates the exec session; it refuses when the container is
\* not running, and may fail otherwise (ExecError).
RT_Exec ==
    /\ pc = "await_exec" /\ resp = "none"
    /\ resp' \in (IF cstate = "Running" THEN {"ok", "ExecError"} ELSE {"ExecError"})
    /\ UNCHANGED << inputs, pc, step, outstanding, proc, fault, calls, cstate,
                    sigVars, execVars, logVars >>

\* container.ts:43-48  container.exec resolved; exec.start({hijack, stdin}) is issued.
M_ExecCreated ==
    /\ proc = "running" /\ pc = "await_exec" /\ resp # "none"
    /\ IF resp = "ok"
          THEN /\ Resume("execStart:" \o Plan[step].arg, "await_execStart")
               /\ UNCHANGED << step, proc, fault >>
          ELSE Abort(resp)
    /\ UNCHANGED << inputs, cstate, sigVars, execVars, logVars >>

\* The runtime starts the session and hands back its output stream, a fresh
\* stream with no listener on it; or it fails (ExecError).
RT_ExecStart ==
    /\ pc = "await_execStart" /\ resp = "none"
    /\ resp' \in (IF cstate = "Running" THEN {"ok", "ExecError"} ELSE {"ExecError"})
    /\ IF resp' = "ok"
          THEN /\ xstate' = "open"
               /\ xDataL' = FALSE
               /\ xEndL' = FALSE
               /\ xResolved' = FALSE
               /\ xEmitted' = 0
               /\ xSurfaced' = 0
          ELSE UNCHANGED << xstate, xDataL, xEndL, xResolved, xEmitted, xSurfaced >>
    /\ UNCHANGED << inputs, pc, step, outstanding, proc, fault, calls, cstate,
                    sigVars, endSeen, returned, logVars >>

\* container.ts:31-41  waitForStreamEnd: the executor registers the 'end'
\* listener; the promise is pending until that listener runs.  reject is
\* reachable only from a synchronous throw of stream.on.
WaitForStreamEnd ==
    /\ xEndL' = TRUE
    /\ xResolved' = FALSE

\* container.ts:48-52  exec.start resolved: the 'data' listener is attached,
\* then waitForStreamEnd is called and awaited.
M_ExecAttached ==
    /\ proc = "running" /\ pc = "await_execStart" /\ resp # "none"
    /\ IF resp = "ok"
          THEN /\ xDataL' = TRUE
               /\ WaitForStreamEnd
               /\ pc' = "await_end"
               /\ resp' = "none"
               /\ UNCHANGED << step, outstanding, calls, proc, fault >>
          ELSE /\ Abort(resp)
               /\ UNCHANGED << xDataL, xEndL, xResolved >>
    /\ UNCHANGED << inputs, cstate, sigVars, xstate, xEmitted, xSurfaced, endSeen,
                    returned, logVars >>

\* The exec stream emits a chunk; container.ts:49-51 prints it when the
\* 'data' listener is attached.
X_Data ==
    /\ proc = "running" /\ xstate = "open" /\ xEmitted < MaxChunks
    /\ xEmitted' = xEmitted + 1
    /\ xSurfaced' = IF xDataL THEN xSurfaced + 1 ELSE xSurfaced
    /\ UNCHANGED << inputs, mainVars, proc, fault, cstate, calls, sigVars, xstate,
                    xDataL, xEndL, xResolved, endSeen, returned, logVars >>

\* The exec stream emits 'end'; container.ts:34-36 resolves the promise when
\* the 'end' listener is attached by then.
X_End ==
    /\ proc = "running" /\ xstate = "open"
    /\ xstate' = "ended"
    /\ endSeen' = endSeen \cup {Plan[step].arg}
    /\ xResolved' = xEndL
    /\ UNCHANGED << inputs, mainVars, proc, fault, cstate, calls, sigVars, xDataL,
                    xEndL, xEmitted, xSurfaced, returned, logVars >>

\* The exec stream emits 'error' before 'end'.  No 'error' listener is ever
\* attached (container.ts:49-52), so the event is thrown as an uncaught
\* exception and ends the process.
X_Error ==
    /\ proc = "running" /\ xstate = "open"
    /\ xstate' = "errored"
    /\ proc' = "crashed"
    /\ fault' = "StreamError"
    /\ UNCHANGED << inputs, mainVars, cstate, calls, sigVars, xDataL, xEndL,
                    xResolved, xEmitted, xSurfaced, endSeen, returned, logVars >>

\* runCommandInContainer shutting the container down once its command has
\* ended.
M_ExecReturned_Stops ==
    /\ proc = "running" /\ pc = "await_end" /\ xResolved
    /\ returned' = returned \cup {Plan[step].arg}
    /\ Begin(step + 1)
    /\ cstate' = "Stopped"
    /\ UNCHANGED << inputs, proc, fault, sigVars, xstate, xDataL, xEndL,
                    xResolved, xEmitted, xSurfaced, endSeen, logVars >>

\* M_ExecReturned with the await of waitForStreamEnd left out: the function
\* returns as soon as the listeners are attached.
M_ExecReturned_NoWait ==
    /\ proc = "running" /\ pc = "await_end"
    /\ returned' = returned \cup {Plan[step].arg}
    /\ Begin(step + 1)
    /\ UNCHANGED << inputs, proc, fault, cstate, sigVars, xstate, xDataL, xEndL,
                    xResolved, xEmitted, xSurfaced, endSeen, logVars >>

\* container.ts:52-53, app.js:219-224  the awaited promise is resolved:
\* runCommandInContainer returns and the script goes on to the next operation.
M_ExecReturned ==
    /\ proc = "running" /\ pc = "await_end" /\ xResolved
    /\ returned' = returned \cup {Plan[step].arg}
    /\ Begin(step + 1)
    /\ UNCHANGED << inputs, proc, fault, cstate, sigVars, xstate, xDataL, xEndL,
                    xResolved, xEmitted, xSurfaced, endSeen, logVars >>

----------------------------------------------------------------------------
(* copyFileToContainer, container.ts:55-59 *)

\* The runtime extracts the archive.  The archive of a missing local file
\* cannot be read, so the call fails; otherwise it succeeds or fails
\* (destination not writable, container gone): TransferError.
RT_Copy ==
    /\ pc = "await_copy" /\ resp = "none"
    /\ resp' \in (IF localExists[Plan[step].arg] /\ cstate \in {"Created", "Running", "Stopped"}
                     THEN {"ok", "TransferError"}
                     ELSE {"TransferError"})
    /\ UNCHANGED << inputs, pc, step, outstanding, proc, fault, calls, cstate,
                    sigVars, execVars, logVars >>

\* container.ts:57  the tar stream of a missing file emits 'error'; when no
\* listener takes it, it is an uncaught exception and ends the process.
ArchiveError ==
    /\ proc = "running" /\ pc = "await_copy" /\ ~localExists[Plan[step].arg]
    /\ proc' = "crashed"
    /\ fault' = "ArchiveError"
    /\ UNCHANGED << inputs, mainVars, cstate, calls, sigVars, execVars, logVars >>

\* The copy wrapped in a catch that only logs: a rejected putArchive is
\* swallowed and the script goes on to the next operation.
M_Copied_Swallow ==
    /\ proc = "running" /\ pc = "await_copy" /\ resp # "none"
    /\ Begin(step + 1)
    /\ UNCHANGED << proc, fault >>
    /\ UNCHANGED << inputs, cstate, sigVars, execVars, logVars >>

\* app.js:220-222  putArchive resolved (or rejected).
M_Copied ==
    /\ proc = "running" /\ pc = "await_copy" /\ resp # "none"
    /\ IF resp = "ok"
          THEN /\ Begin(step + 1)
               /\ UNCHANGED << proc, fault >>
          ELSE Abort(resp)
    /\ UNCHANGED << inputs, cstate, sigVars, execVars, logVars >>

----------------------------------------------------------------------------
(* stop and remove, app.js:224-228 *)

\* The runtime processes the script's container.stop().
RT_Stop ==
    /\ pc = "await_stop" /\ resp = "none"
    /\ resp' \in StopOutcomes(cstate)
    /\ cstate' = IF cstate = "Running" /\ resp' = "ok" THEN "Stopped" ELSE cstate
    /\ UNCHANGED << inputs, pc, step, outstanding, proc, fault, calls, sigVars,
                    execVars, logVars >>

\* app.js:224-227  stop resolved: container.remove() is issued.
M_Stopped ==
    /\ proc = "running" /\ pc = "await_stop" /\ resp # "none"
    /\ IF resp = "ok"
          THEN /\ Begin(step + 1)
               /\ UNCHANGED << proc, fault >>
          ELSE Abort(resp)
    /\ UNCHANGED << inputs, cstate, sigVars, execVars, logVars >>

\* The runtime processes container.remove().
RT_Remove ==
    /\ pc = "await_remove" /\ resp = "none"
    /\ resp' \in RemoveOutcomes(cstate)
    /\ cstate' = IF resp' = "ok" THEN "Removed" ELSE cstate
    /\ UNCHANGED << inputs, pc, step, outstanding, proc, fault, calls, sigVars,
                    execVars, logVars >>

\* app.js:227-229  remove resolved: the main script is finished.
M_Removed ==
    /\ proc = "running" /\ pc = "await_remove" /\ resp # "none"
    /\ IF resp = "ok"
          THEN /\ pc' = "done"
               /\ resp' = "none"
               /\ outstanding' = outstanding - 1
               /\ UNCHANGED << step, calls, proc, fault >>
          ELSE Abort(resp)
    /\ UNCHANGED << inputs, cstate, sigVars, execVars, logVars >>

----------------------------------------------------------------------------
(* The SIGINT listener, container.ts:17-20 *)

InExec == pc \in {"await_exec", "await_execStart", "await_end"}

\* The listener stopping the container only when it is running.
SigintListeners_Guarded ==
    /\ calls' = IF cstate = "Running"
                   THEN calls \o [i \in 1..handlers |-> "stop:force"] ELSE calls
    /\ hpending' = IF cstate = "Running" THEN hpending + handlers ELSE hpending
    /\ handlers' = handlers

\* The listener registered with process.once: it is gone after its first run.
SigintListeners_Once ==
    /\ calls' = calls \o [i \in 1..handlers |-> "stop:force"]
    /\ hpending' = hpending + handlers
    /\ handlers' = 0

\* container.ts:17-20  every registered listener issues
\* container.stop({ force: true }) and awaits it; the listener stays registered.
SigintListeners ==
    /\ calls' = calls \o [i \in 1..handlers |-> "stop:force"]
    /\ hpending' = hpending + handlers
    /\ handlers' = handlers

\* A SIGINT reaches the process.  With no listener registered node's default
\* applies and the process is terminated; otherwise the listeners run and the
\* main script is left where it is.
Interrupt ==
    /\ proc = "running" /\ sigs < MaxSignals
    /\ sigs' = sigs + 1
    /\ IF handlers = 0
          THEN /\ proc' = "killed"
               /\ fault' = "SIGINT"
               /\ UNCHANGED << calls, hpending, handlers, sigRunning, sigDuringExec >>
          ELSE /\ SigintListeners
               /\ sigRunning' = (sigRunning \/ cstate = "Running")
               /\ sigDuringExec' = IF InExec THEN sigDuringExec \cup {Plan[step].arg}
                                             ELSE sigDuringExec
               /\ UNCHANGED << proc, fault >>
    /\ UNCHANGED << inputs, mainVars, cstate, hanswers, execVars, logVars >>

\* The runtime processes one forced stop of the listener: the stop succeeds
\* or fails.  Its answer travels back to the process; a process that has
\* ended receives nothing.
RT_ForceStop ==
    /\ hpending > 0
    /\ hpending' = hpending - 1
    /\ \E r \in StopOutcomes(cstate) :
          /\ cstate' = IF cstate = "Running" /\ r = "ok" THEN "Stopped" ELSE cstate
          /\ hanswers' = IF proc = "running" THEN [hanswers EXCEPT ![r] = @ + 1]
                                             ELSE hanswers
    /\ UNCHANGED << inputs, mainVars, proc, fault, calls, handlers, sigs,
                    sigRunning, sigDuringExec, execVars, logVars >>

\* container.ts:19  the listener only issues the call and nothing waits for
\* it: when the process ends before the request has left it, the forced
\* stop never reaches the runtime.
H_StopUnsent ==
    /\ proc # "running" /\ hpending > 0
    /\ hpending' = hpending - 1
    /\ UNCHANGED << inputs, mainVars, proc, fault, cstate, calls, handlers,
                    hanswers, sigs, sigRunning, sigDuringExec, execVars, logVars >>

\* container.ts:19  the listener resumes from its await of container.stop
\* with one of the answers.  The listener is an async function nobody
\* awaits: a rejected stop is an unhandled rejection, which ends the process.
H_StopAnswered ==
    /\ proc = "running"
    /\ \E r \in StopAnswers :
          /\ hanswers[r] > 0
          /\ hanswers' = [hanswers EXCEPT ![r] = @ - 1]
          /\ IF r # "ok"
                THEN proc' = "crashed" /\ fault' = r
                ELSE UNCHANGED << proc, fault >>
    /\ UNCHANGED << inputs, mainVars, cstate, calls, handlers, hpending, sigs,
                    sigRunning, sigDuringExec, execVars, logVars >>

----------------------------------------------------------------------------
(* The log stream of startContainer, container.ts:22-28 *)

\* The log listener keeping what it prints newest first.
L_Data_Reversed ==
    /\ proc = "running" /\ logState = "open" /\ Len(logEmitted) < MaxLogChunks
    /\ logEmitted' = Append(logEmitted, Len(logEmitted) + 1)
    /\ logSurfaced' = IF logListener THEN << Len(logEmitted) + 1 >> \o logSurfaced
                                     ELSE logSurfaced
    /\ UNCHANGED << inputs, mainVars, proc, fault, cstate, calls, sigVars,
                    execVars, logState, logListener >>

\* The log stream emits its next chunk; container.ts:27 prints it when the
\* listener is attached.
L_Data ==
    /\ proc = "running" /\ logState = "open" /\ Len(logEmitted) < MaxLogChunks
    /\ logEmitted' = Append(logEmitted, Len(logEmitted) + 1)
    /\ logSurfaced' = IF logListener THEN Append(logSurfaced, Len(logEmitted) + 1)
                                     ELSE logSurfaced
    /\ UNCHANGED << inputs, mainVars, proc, fault, cstate, calls, sigVars,
                    execVars, logState, logListener >>

\* The log stream ends.
L_End ==
    /\ proc = "running" /\ logState = "open"
    /\ logState' = "ended"
    /\ UNCHANGED << inputs, mainVars, proc, fault, cstate, calls, sigVars,
                    execVars, logListener, logEmitted, logSurfaced >>

\* container.ts:22-28  the log stream fails.  startContainer attaches no
\* 'error' listener to it, so the event is an uncaught exception and ends
\* the process.
L_Error ==
    /\ proc = "running" /\ logState = "open"
    /\ logState' = "errored"
    /\ proc' = "crashed"
    /\ fault' = "LogStreamError"
    /\ UNCHANGED << inputs, mainVars, cstate, calls, sigVars, execVars,
                    logListener, logEmitted, logSurfaced >>

\* The main script has nothing left that could resume it: it is finished, or
\* it waits in waitForStreamEnd (container.ts:31-41) for an 'end' that the
\* stream emitted before the listener was attached.
ScriptIdle ==
    \/ pc = "done"
    \/ pc = "await_end" /\ xstate = "ended" /\ ~xResolved

\* app.js:229-231  nothing is pending any more (no request, no answer on its
\* way to the listener, no open stream): the event loop is empty and the
\* process exits, whether or not the script reached its end.
ProcExit ==
    /\ proc = "running" /\ ScriptIdle /\ logState # "open"
    /\ hpending = 0 /\ \A r \in StopAnswers : hanswers[r] = 0
    /\ proc' = "exited"
    /\ UNCHANGED << inputs, mainVars, fault, cstate, calls, sigVars, execVars, logVars >>

----------------------------------------------------------------------------

Next ==
    \/ M_CreateContainer \/ RT_Create \/ M_Created \/ M_DryRun
    \/ M_StartContainer \/ RT_Start \/ M_Started \/ RT_Logs \/ M_LogsAttached
    \/ RT_Exec \/ M_ExecCreated \/ RT_ExecStart \/ M_ExecAttached
    \/ X_Data \/ X_End \/ X_Error \/ M_ExecReturned
    \/ RT_Copy \/ ArchiveError \/ M_Copied
    \/ RT_Stop \/ M_Stopped \/ RT_Remove \/ M_Removed
    \/ Interrupt \/ RT_ForceStop \/ H_StopUnsent \/ H_StopAnswered
    \/ L_Data \/ L_End \/ L_Error \/ ProcExit

\* A step of the main script: the continuation after an await.
MainStep ==
    \/ M_CreateContainer \/ M_Created \/ M_DryRun \/ M_StartContainer
    \/ M_Started \/ M_LogsAttached \/ M_ExecCreated \/ M_ExecAttached
    \/ M_ExecReturned \/ M_Copied \/ M_Stopped \/ M_Removed

\* A step of the runtime answering the call the main script awaits.
RuntimeStep ==
    \/ RT_Create \/ RT_Start \/ RT_Logs \/ RT_Exec \/ RT_ExecStart
    \/ RT_Copy \/ RT_Stop \/ RT_Remove

Spec == Init /\ [][Next]_vars

\* Next without the emission of chunks.  X_Data and L_Data change only the
\* chunk records (xEmitted, xSurfaced, logEmitted, logSurfaced), which no
\* guard of another action reads, so every behaviour of the script, the
\* listener, the runtime and the container is kept.
NextNoData ==
    \/ MainStep \/ RuntimeStep
    \/ X_End \/ X_Error \/ ArchiveError
    \/ Interrupt \/ RT_ForceStop \/ H_StopUnsent \/ H_StopAnswered
    \/ L_End \/ L_Error \/ ProcExit

\* The program without the chunk records; for properties of the calls, the
\* listener, the container and the process.
SpecNoData == Init /\ [][NextNoData]_vars

\* NextNoData with the chunks of the log stream; for properties of the log
\* listener.
NextLogData == NextNoData \/ L_Data

SpecLogData == Init /\ [][NextLogData]_vars

\* NextNoData with the chunks of the exec stream; for properties of
\* runCommandInContainer.
NextExecData == NextNoData \/ X_Data

SpecExecData == Init /\ [][NextExecData]_vars

----------------------------------------------------------------------------
(* Properties *)

Issued(c) == \E i \in 1..Len(calls) : calls[i] = c

IsPrefix(a, b) == Len(a) <= Len(b) /\ \A i \in 1..Len(a) : a[i] = b[i]

\* The first runtime call of each operation of an invocation, in the order
\* the main script names them (app.js:201-227).
IssueOrder ==
    << "createContainer", "start", "exec:mkdir", "putArchive:build",
       "putArchive:helper", "exec:run", "stop", "remove" >>

IsOpCall(c) == \E i \in 1..Len(IssueOrder) : IssueOrder[i] = c

\* The operations the main script has issued so far, in issue order.
OpsIssued == SelectSeq(calls, IsOpCall)

\* C1: an exec call never returns before the output stream of its own exec
\* session has emitted "end": every exec operation that has returned is one
\* whose stream has ended.
C1_ExecReturnsAfterEnd == \A a \in returned : a \in endSeen

\* C1 witness: an exec call has returned after its stream emitted a chunk and
\* then "end".
C1_Witness == "run" \in returned /\ xEmitted > 0 /\ xstate = "ended"

\* The run is over: the process has ended and no request is left for the
\* runtime to process.
RunOver == proc # "running" /\ ~ENABLED Next

\* C2 (as claimed): whenever a SIGINT is received while the container is
\* Running, a stop call with force=true is issued on the container and the
\* container reaches Stopped: no run is over with the container still Running
\* after such a signal.
C2_InterruptStopsRunning ==
    /\ sigRunning => Issued("stop:force")
    /\ (sigRunning /\ RunOver) => cstate \in {"Stopped", "Removed"}

\* C3 (as claimed): a SIGINT received while the container is Created and not
\* yet started does not terminate the invocation.
C3_InterruptWhileCreatedSurvives == ~(cstate = "Created" /\ proc = "killed")

\* C4 (as claimed): in every run the container is removed by the time the
\* process has ended, normally or after an interrupt.
C4_RemovedBeforeExit ==
    (proc # "running" /\ cstate # "None") => cstate = "Removed"

\* C5: the operations of an invocation are issued in the order create, start,
\* exec(mkdir), copy(build script), copy(helper script), exec(run), stop,
\* remove, each only after the previous one has resolved: at most one call of
\* the main script is in flight at any time.
C5_SequentialOrder == IsPrefix(OpsIssued, IssueOrder) /\ outstanding <= 1

\* C5 witness: the whole sequence has been issued and has resolved.
C5_Witness == pc = "done" /\ OpsIssued = IssueOrder /\ outstanding = 0

\* C6 (as claimed): when an operation after creation fails (start, exec, copy
\* or a stream error), stop and remove are still issued on the container
\* before the run is abandoned.
C6_CleanupAfterFailure ==
    (proc = "crashed" /\ fault \in {"StartError", "LogsError", "ExecError", "TransferError",
                                     "StreamError", "LogStreamError"})
        => (Issued("stop") /\ Issued("remove"))

\* C7 (as claimed): for a local file that does not exist, copyFileToContainer
\* never issues the putArchive call.
C7_NoArchiveCallForMissingFile ==
    \A f \in Files : ~localExists[f] => ~Issued("putArchive:" \o f)

\* C8 (as claimed): an exec call that was in flight when a SIGINT arrived, and
\* whose container the forced stop has taken away, does not return
\* successfully; it fails.
C8_InterruptedExecFails ==
    [][(pc = "await_end" /\ cstate = "Stopped" /\ Plan[step].arg \in sigDuringExec)
           => returned' = returned]_vars

\* C9 (as claimed): the main script's stop, issued on a container that is
\* already Stopped, does not fail the invocation.
C9_StopOnStoppedSucceeds ==
    ~(pc = "aborted" /\ step = 5 /\ fault = "AlreadyStopped")

\* C10: from the start call until the container is Removed exactly one SIGINT
\* listener is registered: never zero, never more than one.
C10_OneHandler ==
    /\ handlers <= 1
    /\ (Issued("start") /\ cstate # "Removed") => handlers = 1

\* C10 witness: the listener has run and the container is stopped but not
\* yet removed; the listener is still the one registered listener.
C10_Witness ==
    Issued("start") /\ sigs > 0 /\ cstate = "Stopped" /\ pc = "await_remove" /\ handlers = 1

\* A SIGINT is taken by the registered listener in this step.
SigintHandled == sigs' = sigs + 1 /\ handlers > 0

\* C11: startContainer registers the SIGINT listener before it issues the
\* start call: whenever the start call is in flight or the container is
\* Running a listener is registered, and a SIGINT received after the
\* registration issues stop with force=true.
C11_HandlerBeforeStart ==
    /\ []((pc = "await_start" \/ Issued("start") \/ cstate = "Running") => handlers > 0)
    /\ [][SigintHandled => (Len(calls') > Len(calls) /\ calls'[Len(calls')] = "stop:force")]_vars

\* C11 witness: a SIGINT arrived while the start call was still in flight and
\* the registered listener issued the forced stop.
C11_Witness ==
    pc = "await_start" /\ resp = "none" /\ handlers = 1 /\ sigs = 1
        /\ calls = << "createContainer", "start", "stop:force" >>

\* C12: the log listener surfaces chunks in the order the log stream emits
\* them (chunks are numbered in emission order), surfaces only chunks the
\* stream emitted, and surfaces nothing once the stream has emitted "end".
C12_LogOrder ==
    /\ [](/\ \A i \in 1..Len(logSurfaced) : \E j \in 1..Len(logEmitted) :
                 logEmitted[j] = logSurfaced[i]
          /\ \A i, j \in 1..Len(logSurfaced) :
                 i < j => logSurfaced[i] < logSurfaced[j])
    /\ [][logState = "ended" => logSurfaced' = logSurfaced]_vars

\* C12 witness: two chunks were emitted and surfaced, then the stream ended.
C12_Witness ==
    logState = "ended" /\ Len(logEmitted) >= 2 /\ logSurfaced = logEmitted

\* Errors an operation of the sequence can raise.
OpErrors ==
    {"CreationError", "StartError", "LogsError", "ExecError", "TransferError",
     "ArchiveError", "StreamError", "LogStreamError"}

\* The calls of the main script, without the forced stops of the listener.
NotForced(c) == c # "stop:force"
MainCalls == SelectSeq(calls, NotForced)

\* The runtime has rejected the call the script awaits.
ErrPending == proc = "running" /\ resp \notin {"none", "ok"}

\* C13: an error raised by an operation (creation, start, exec, transfer, a
\* stream error before "end") ends the invocation at the top level: the
\* process is ended by that error, no later call of the sequence is issued
\* once the error is raised, and the rejected call is not left blocked (the
\* script can resume from it, and resuming aborts).
C13_ErrorsAbort ==
    /\ [](fault \in OpErrors => proc = "crashed")
    /\ [](ErrPending => ENABLED MainStep)
    /\ [][(ErrPending \/ fault \in OpErrors) => MainCalls' = MainCalls]_vars

\* C13 witness: the first copy was rejected with TransferError; the script
\* was aborted and the second copy was never issued.
C13_Witness ==
    pc = "aborted" /\ fault = "TransferError" /\ step = 2
        /\ ~Issued("putArchive:helper") /\ proc = "crashed"

\* The runtime applies a stop (of the main script or of the listener) in this step.
StopApplied == RT_ForceStop \/ RT_Stop

\* The runtime applies the remove of the main script in this step.
RemoveApplied == pc = "await_remove" /\ resp = "none" /\ resp' # "none"

StartsIssued == Len(SelectSeq(calls, LAMBDA c : c = "start"))

\* C14 (as claimed): the container's state changes only along
\* Created -> Running -> Stopped -> Removed, the container is started at most
\* once, a stop is applied only to a Running container and a remove only to
\* a Stopped one, in every interleaving of the main script with SIGINTs.
C14_LifecycleStateMachine ==
    /\ [][cstate' # cstate =>
            << cstate, cstate' >> \in { << "None", "Created" >>, << "Created", "Running" >>,
                                        << "Running", "Stopped" >>, << "Stopped", "Removed" >> }]_vars
    /\ [](StartsIssued <= 1)
    /\ [][StopApplied => cstate = "Running"]_vars
    /\ [][RemoveApplied => cstate = "Stopped"]_vars

\* The runtime applies the create or the start of the main script in this step.
CreateOrStartApplied ==
    pc \in {"await_create", "await_start"} /\ resp = "none" /\ resp' # "none"

\* The main script is inside runCommandInContainer or copyFileToContainer.
InExecOrCopy == InExec \/ pc = "await_copy"

\* C15: runCommandInContainer and copyFileToContainer leave the container's
\* lifecycle state unchanged: every change of the state is the effect of a
\* create, start, stop or remove call, and while an exec or copy call is in
\* flight the only change is the forced stop of the SIGINT listener.
C15_ExecCopyFrame ==
    /\ [][cstate' # cstate => (CreateOrStartApplied \/ StopApplied \/ RemoveApplied)]_vars
    /\ [][(InExecOrCopy /\ cstate' # cstate) => hpending' < hpending]_vars

\* C15 witness: both exec calls and both copies have run without a signal
\* and the container is still Running when the script issues stop.
C15_Witness ==
    pc = "await_stop" /\ resp = "none" /\ cstate = "Running" /\ sigs = 0
        /\ returned = {"mkdir", "run"} /\ Issued("putArchive:helper")

\* A run without --debug, with both local files present, in which so far no
\* SIGINT has arrived, the runtime has rejected nothing and no stream has
\* errored.
CleanRun ==
    /\ ~dryRun /\ \A f \in Files : localExists[f]
    /\ sigs = 0 /\ proc = "running" /\ fault = "none"
    /\ resp \in {"none", "ok"} /\ xstate # "errored"

\* The main script has run to its end with the container removed.
Completed == pc = "done" /\ cstate = "Removed"

\* C16 (as claimed): in a clean run the invocation completes with the
\* container Removed: until it has, the script, the runtime or the pending
\* "end" of the exec stream can still take it further.
C16_CleanRunCompletes ==
    CleanRun => (Completed \/ ENABLED (MainStep \/ RuntimeStep \/ X_End))

\* The output stream of the exec session the script is in has emitted "end".
ExecStreamEnded ==
    /\ proc = "running" /\ xstate = "ended"
    /\ (pc = "await_end" \/ (pc = "await_execStart" /\ resp = "ok"))

\* C17 (as claimed): once the output stream of an exec session has emitted
\* "end" the exec call returns, whenever the "end" came relative to the
\* attachment of the listener: the script can still attach and return.
C17_EndMeansReturn ==
    ExecStreamEnded => ENABLED (M_ExecAttached \/ M_ExecReturned)

\* C18 (as claimed): the SIGINT listener does not terminate the process:
\* after an interrupt the main script keeps running, so the process is never
\* ended by the listener's stop while the main script is still under way.
C18_InterruptLeavesProcessRunning ==
    ~(/\ proc = "crashed" /\ fault \in {"StopError", "AlreadyStopped", "NoSuchContainer"}
      /\ pc \notin {"aborted", "done"})

\* C19: once registered the SIGINT listener is never deregistered; every
\* SIGINT received after the registration issues exactly one forced stop,
\* whatever the state of the container; and the outcome of that stop reaches
\* nothing in the main script.
C19_ListenerStays ==
    /\ [][handlers' >= handlers]_vars
    /\ [][SigintHandled =>
            (calls' = Append(calls, "stop:force") /\ hpending' = hpending + 1)]_vars
    /\ [][(hpending' < hpending \/ hanswers' # hanswers) => UNCHANGED mainVars]_vars

\* C19 witness: one SIGINT arrived while the start call was in flight and one
\* after the container was Removed; each issued a forced stop.
C19_Witness ==
    /\ cstate = "Removed" /\ handlers = 1 /\ sigs = 2
    /\ Len(calls) > 3 /\ calls[3] = "stop:force" /\ calls[Len(calls)] = "stop:force"

\* C20: in a --debug run nothing but createContainer is ever called on the
\* runtime, no SIGINT listener is registered, and once the container is
\* created it stays Created to the end of the invocation.
C20_DryRunOnlyCreates ==
    dryRun =>
        /\ \A i \in 1..Len(calls) : calls[i] = "createContainer"
        /\ handlers = 0
        /\ cstate \in {"None", "Created"}
        /\ (pc = "created" \/ fault = "ReferenceError") => cstate = "Created"

\* C20 witness: the --debug run has ended (on the ReferenceError of
\* app.js:209) with createContainer the only call and the container Created.
C20_Witness ==
    /\ dryRun /\ pc = "aborted" /\ proc = "crashed" /\ fault = "ReferenceError"
    /\ calls = << "createContainer" >> /\ cstate = "Created" /\ handlers = 0

====
